---- MODULE Spec2Model ----
(***************************************************************************)
(* Grid Warden: EV load synthesis (src/src/ev_simulator.py), the power      *)
(* flow wrapper and the IEEE C57.91 thermal stepper (src/src/physics.py),   *)
(* and the two drivers that thread them over 24 hours (src/app.py and       *)
(* src/run_pipeline.py).                                                    *)
(*                                                                         *)
(* Number representation.  The program computes in binary floating point;  *)
(* the model computes in fixed point:                                      *)
(*   temperatures            0.01 degC      (50.0 degC  = 5000)            *)
(*   dimensionless factors   0.001          (1.0        = ONE = 1000)      *)
(*   loading                 whole percent  (150.0 %    = 150)             *)
(*   power, hourly curves    kW-minutes per hour, i.e. MW * 60000          *)
(*                           (7 kW for a full hour = 420, 5 MW = 300000)   *)
(*   time inside a day       whole minutes, as in the source               *)
(* Products are rounded to the nearest unit (RoundDiv), as floating point  *)
(* rounds to nearest.                                                      *)
(***************************************************************************)
EXTENDS Integers, Sequences, FiniteSets, TLC

(***************************************************************************)
(* Bounds of the model.                                                    *)
(***************************************************************************)
\* calculate_thermal_aging calls made on one GridPhysics in SpecThermal
MaxCalls == 16
\* changes of the loading argument between consecutive calls in SpecThermal
MaxLoadChanges == 1
\* largest fleet size (num_evs) tried
MaxFleet == 2
\* generate_load_profile calls made on one EVSimulator in SpecEV
MaxProfileCalls == 2
\* solve_power_flow and calculate_thermal_aging calls, together, on one
\* GridPhysics of SpecGrid
MaxGridCalls == 5

(***************************************************************************)
(* Fixed-point helpers.                                                    *)
(***************************************************************************)
\* 1.0 of a dimensionless quantity (faa = 1.0, K = 1.0)
ONE == 1000

Abs(x) == IF x < 0 THEN -x ELSE x

\* a / b rounded to the nearest integer, b > 0
RoundDiv(a, b) == (a + (b \div 2)) \div b

\* np.exp on fixed-point arguments: the power series 1 + x + x^2/2! + ...,
\* summed until the terms vanish at the model's resolution.
RECURSIVE ExpSeries(_, _, _)
ExpSeries(x, k, term) ==
    IF term = 0 THEN 0
    ELSE term + ExpSeries(x, k + 1, RoundDiv(term * x, k * ONE))

Exp(x) == ExpSeries(x, 1, ONE)

(***************************************************************************)
(* GridPhysics: thermal parameters (physics.py, __init__ and               *)
(* calculate_thermal_aging).                                               *)
(***************************************************************************)
tau_oil == 180
dt == 60
rated_top_oil_rise == 5000
rated_hot_spot_rise == 1500
\* if hst > 110
HstLimit == 11000
\* the sentinel of a failed solve: return 150.0, 0.85
CollapseLoading == 150
CollapseVoltage == 850

\* Loading values (percent) the model lets the solver report: a 25 % grid up to
\* the sentinel.
LoadingLevels == {0, 25, 50, 75, 100, 125, 150}

\* K ** m with m = 0.8, K = loading_percent / 100, in thousandths.
KPowM(loading_percent) ==
    CASE loading_percent = 0   -> 0
      [] loading_percent = 25  -> 330
      [] loading_percent = 50  -> 574
      [] loading_percent = 75  -> 794
      [] loading_percent = 100 -> 1000
      [] loading_percent = 125 -> 1195
      [] loading_percent = 150 -> 1383

\* K ** n with n = 1.6, in thousandths.
KPowN(loading_percent) ==
    CASE loading_percent = 0   -> 0
      [] loading_percent = 25  -> 109
      [] loading_percent = 50  -> 330
      [] loading_percent = 75  -> 631
      [] loading_percent = 100 -> 1000
      [] loading_percent = 125 -> 1429
      [] loading_percent = 150 -> 1913

\* target_oil_rise = rated_top_oil_rise * (K ** m)
TargetOilRise(loading_percent) ==
    RoundDiv(rated_top_oil_rise * KPowM(loading_percent), ONE)

\* np.exp(-self.dt / self.tau_oil)
LagDecay == Exp(RoundDiv((-dt) * ONE, tau_oil))

\* A plausible slip in the difference equation: the "1 -" dropped, so the oil
\* moves by the decay factor instead of its complement.
OilChangeNoComplement(prev, loading_percent) ==
    RoundDiv((TargetOilRise(loading_percent) - prev) * LagDecay, ONE)

\* change = (target_oil_rise - self.prev_top_oil_rise) * (1 - np.exp(-dt/tau))
OilChange(prev, loading_percent) ==
    RoundDiv((TargetOilRise(loading_percent) - prev) * (ONE - LagDecay), ONE)

\* current_top_oil_rise = self.prev_top_oil_rise + change
CurrentTopOilRise(prev, loading_percent) == prev + OilChange(prev, loading_percent)

\* hot_spot_gradient = rated_hot_spot_rise * (K ** n)
HotSpotGradient(loading_percent) ==
    RoundDiv(rated_hot_spot_rise * KPowN(loading_percent), ONE)

\* hst = ambient_temp_c + current_top_oil_rise + hot_spot_gradient
Hst(prev, loading_percent, ambient_temp_c) ==
    ambient_temp_c + CurrentTopOilRise(prev, loading_percent)
        + HotSpotGradient(loading_percent)

\* 15000/383 - 15000/(hst + 273), in thousandths (hst in 0.01 degC)
AgingExponent(t) ==
    (1500000000 \div 38300) - (1500000000 \div (t + 27300))

\* A plausible slip in the aging rule: the Arrhenius exponent with its two
\* terms swapped.
FaaSwapped(t) ==
    IF t > HstLimit THEN Exp(-AgingExponent(t)) ELSE ONE

\* if hst > 110: faa = np.exp(15000/383 - 15000/(hst + 273)) else: faa = 1.0
Faa(t) ==
    IF t > HstLimit THEN Exp(AgingExponent(t)) ELSE ONE

(***************************************************************************)
(* EVSimulator (ev_simulator.py).                                          *)
(***************************************************************************)
\* charging_power_kw = 7.0, battery_capacity_kwh = 60.0
charging_power == 7
battery_capacity == 60
\* np.zeros(1440 + 600), load_curve_min[:1440], reshape(24, 60)
DayMinutes == 1440
BufferMinutes == 600
HoursPerDay == 24
MinutesPerHour == 60
\* int(23 * 60)
TimerHour == 23
\* np.random.randint(0, 15); window_minutes = 5 * 60
UloJitterHigh == 15
WindowHours == 5

Modes == {"uncontrolled", "ulo_timer", "smart_managed"}

Max(a, b) == IF a >= b THEN a ELSE b
Min(a, b) == IF a <= b THEN a ELSE b

\* Python int() of num / den: truncation toward zero
TruncToInt(num, den) ==
    IF num >= 0 THEN num \div den ELSE -((-num) \div den)

\* Outcomes of np.random.normal(loc=18.0, scale=2.0) the model tries, in
\* hundredths of an hour: before midnight of the previous day, the mean, late
\* evening (a session that crosses midnight).
ArrivalDraws == {-50, 1800, 2375}
\* Outcomes of np.random.uniform(0.2, 0.8) the model tries, in thousandths.
SocDraws == {200, 799}
\* Outcomes of np.random.randint(0, high) the model tries: both ends of the
\* range and the two values around one hour.
RandintDraws(high) ==
    {0, high - 1} \cup ({UloJitterHigh - 1, 59, 60} \cap (0 .. (high - 1)))

\* energy_needed = (1.0 - arrival_soc) * battery_capacity;
\* durations = energy_needed / charging_power; int(duration_hours * 60)
DurationMinutes(soc) ==
    TruncToInt((ONE - soc) * battery_capacity * MinutesPerHour,
               charging_power * ONE)

\* A plausible slip: the "Handle bounds" line max(0, start_time_min) left out.
StartTimeMinNoClamp(mode, arrival_hour, jitter) ==
    CASE mode = "uncontrolled" -> TruncToInt(arrival_hour * 60, 100)
      [] mode = "ulo_timer" -> TimerHour * 60 + jitter
      [] mode = "smart_managed" -> TimerHour * 60 + jitter

\* A plausible slip: smart_managed counts its delay from minute 0, the
\* int(23 * 60) of line 51 left out.
StartTimeMinDelayOnly(mode, arrival_hour, jitter) ==
    Max(0, CASE mode = "uncontrolled" -> TruncToInt(arrival_hour * 60, 100)
             [] mode = "ulo_timer" -> TimerHour * 60 + jitter
             [] mode = "smart_managed" -> jitter)

\* start_time_min by mode, then start_time_min = max(0, start_time_min)
StartTimeMin(mode, arrival_hour, jitter) ==
    Max(0, CASE mode = "uncontrolled" -> TruncToInt(arrival_hour * 60, 100)
             [] mode = "ulo_timer" -> TimerHour * 60 + jitter
             [] mode = "smart_managed" -> TimerHour * 60 + jitter)

\* A slip in the unit of the duration: end_time_min = start_time_min +
\* int(duration_hours), the factor 60 forgotten.
EndTimeMinInHours(start, soc) ==
    start + TruncToInt((ONE - soc) * battery_capacity, charging_power * ONE)

\* end_time_min = start_time_min + int(duration_hours * 60)
EndTimeMin(start, soc) == start + DurationMinutes(soc)

\* The sessions of one call: per vehicle its start_time_min and end_time_min.
Sessions(mode, n, arrivals, socs, jitters) ==
    [i \in 1 .. n |->
        LET start == StartTimeMin(mode, arrivals[i], jitters[i])
        IN  [arrival_hour |-> arrivals[i], start |-> start,
             end |-> EndTimeMin(start, socs[i])]]

\* A plausible slip: the minute buffer created with np.ones, so that every row
\* of 60 minutes starts at 60.
OnesBufferRow(h) == MinutesPerHour

\* load_curve_min = np.zeros(1440 + 600): every row starts at 0.
ZerosBufferRow(h) == 0

\* A plausible other treatment of midnight: the minutes past 1440 wrapped into
\* the early hours of the same curve.
RowOverlapWrapped(session, h) ==
    Max(0, Min(session.end, (h + 1) * MinutesPerHour)
           - Max(session.start, h * MinutesPerHour))
    + Max(0, Min(session.end - DayMinutes, (h + 1) * MinutesPerHour)
             - Max(session.start - DayMinutes, h * MinutesPerHour))

\* Minutes of row h of load_curve_min[:1440].reshape(24, 60) that
\* load_curve_min[start_time_min:end_time_min] += self.charging_power
\* adds to: the slice ends where the buffer of 1440 + 600 zeros ends, and row h
\* holds the minutes 60h .. 60h + 59.
RowOverlap(session, h) ==
    Max(0, Min(Min(session.end, DayMinutes + BufferMinutes),
               (h + 1) * MinutesPerHour)
           - Max(session.start, h * MinutesPerHour))

\* Row h summed over the vehicles 1..i (the row's mean times 60; with the
\* kW -> MW division the value is MW * 60000).
RECURSIVE RowSum(_, _, _)
RowSum(sessions, i, h) ==
    IF i = 0 THEN ZerosBufferRow(h)
    ELSE charging_power * RowOverlap(sessions[i], h) + RowSum(sessions, i - 1, h)

\* load_curve_hourly / 1000.0: the returned curve, hours 0..23
LoadCurveHourly(sessions) ==
    [h \in 0 .. HoursPerDay - 1 |-> RowSum(sessions, Len(sessions), h)]

(***************************************************************************)
(* GridPhysics.solve_power_flow (physics.py).  pp.runpp is an external     *)
(* Newton-Raphson solver: the model takes from it only that it either      *)
(* converges to a result fixed by the injected load or raises.             *)
(***************************************************************************)
\* q_mvar = load_mw * 0.33
QMvar(load_mw) == RoundDiv(load_mw * 33, 100)

\* net.res_trafo.loading_percent[0] of a converged solve: the apparent power
\* |load_mw + j q_mvar| = 1.053 * load_mw over sn_mva = 10, in percent, on the
\* 25 % grid of LoadingLevels (series losses left out).
TrafoLoading(load_mw) ==
    25 * RoundDiv(RoundDiv(load_mw * 1053, 6000000), 25)

\* net.res_bus.vm_pu[1] of a converged solve, in thousandths: the 1.02 pu of
\* the ext_grid less the drop over vkr_percent = 0.5 and vk_percent = 10.
BusVoltage(load_mw) == 1020 - RoundDiv(load_mw * 38, 600000)

\* A plausible slip: the try/except left out, so that a solve that does not
\* converge raises into the caller.
SolvePowerFlowUncaught(load_mw, diverges) ==
    IF diverges
    THEN [raised |-> TRUE, loading |-> 0, voltage |-> 0]
    ELSE [raised |-> FALSE, loading |-> TrafoLoading(load_mw),
          voltage |-> BusVoltage(load_mw)]

\* try: pp.runpp(...); return loading_percent, voltage_pu
\* except Exception: return 150.0, 0.85
SolvePowerFlow(load_mw, diverges) ==
    IF diverges
    THEN [raised |-> FALSE, loading |-> CollapseLoading,
          voltage |-> CollapseVoltage]
    ELSE [raised |-> FALSE, loading |-> TrafoLoading(load_mw),
          voltage |-> BusVoltage(load_mw)]

(***************************************************************************)
(* Driver inputs and helpers (app.py, run_pipeline.py).                    *)
(***************************************************************************)
Hours == 0 .. HoursPerDay - 1

\* base_load_feeder (MW * 60000): a flat 5 MW day, and a day that peaks at
\* 9 MW from 17:00 to 21:00 over 4 MW.
BaseLoadCurves ==
    { [hr \in Hours |-> 300000],
      [hr \in Hours |-> IF hr \in 17 .. 21 THEN 540000 ELSE 240000] }

\* ambient_temp (0.01 degC): 20 degC all day, and a day at 35 degC from 12:00
\* to 18:00 over 25 degC.
AmbientCurves ==
    { [hr \in Hours |-> 2000],
      [hr \in Hours |-> IF hr \in 12 .. 18 THEN 3500 ELSE 2500] }

\* pp.runpp(net, algorithm='nr', max_iteration=50, init='flat') starts every
\* solve from the flat profile, so whether it converges is decided by the
\* network and the injected load alone: it fails above some load.  Where that
\* load lies is pandapower's numerics, outside the model (for the 10 MVA
\* transformer, near 40 MW).  The loads the model runs stay under 10 MW, so
\* lower limits are tried as well: below every load of a day, at the flat
\* base load, between the off-peak and the peak load, and the real one.
CollapseLoads == {200000, 300000, 400000, 2400000}

\* what a GridPhysics nobody solves on is given: the largest limit
SetMax(S) == CHOOSE x \in S : \A y \in S : y <= x

\* _build_network: two buses, one ext_grid, one transformer, one load
NetTopology == [bus |-> 2, ext_grid |-> 1, trafo |-> 1, load |-> 1]

\* A plausible slip: runpp run before lines 38-39 write the new injection, so
\* that the solve is of the injection the previous call left in the network.
RunppLoadBeforeWrite(load_mw, old_p_mw) == old_p_mw

\* The injection runpp solves for: lines 38-39 have written load_mw over
\* whatever the previous call left in net.load.
RunppLoad(load_mw, old_p_mw) == load_mw

\* A plausible slip in the loop body: the load of the next hour.
LoadAtNextHour(curve, hr) == curve[(hr + 1) % HoursPerDay]

\* total_load[h], load_ulo[h], load_smart[h]
LoadAt(curve, hr) == curve[hr]

\* base_load_feeder + ev_profile
TotalLoad(base, ev) == [hr \in Hours |-> base[hr] + ev[hr]]

\* curve.max()
RECURSIVE MaxUpTo(_, _)
MaxUpTo(curve, hr) ==
    IF hr = 0 THEN curve[0] ELSE Max(curve[hr], MaxUpTo(curve, hr - 1))

PeakOf(curve) == MaxUpTo(curve, HoursPerDay - 1)

(***************************************************************************)
(* State.                                                                  *)
(***************************************************************************)
VARIABLES
    prev_top_oil_rise,  \* GridPhysics.prev_top_oil_rise
    hst,                \* hst returned by the last calculate_thermal_aging
    faa,                \* faa returned by the last calculate_thermal_aging
    calls,              \* calculate_thermal_aging calls made so far
    oil_before,         \* prev_top_oil_rise as read by the last call
    last_loading,       \* loading_percent argument of the last call
    same_run,           \* consecutive calls, up to the last, with that loading
    run_oil0,           \* prev_top_oil_rise when that run of calls began
    changes,            \* times the loading argument changed between calls
    ev_state,           \* "none", "constructed", or the exception raised
    num_evs,            \* EVSimulator.num_evs
    mode,               \* mode argument of the last generate_load_profile
    sessions,           \* its per-vehicle start_time_min / end_time_min
    ev_curve,           \* the curve it returned
    prev_mode,          \* mode argument of the call before it
    prev_curve,         \* the curve that call returned
    n_calls,            \* generate_load_profile calls that returned
    np_random_pos,      \* values drawn so far from the process-wide np.random
    p_mw,               \* net.load.loc[0, 'p_mw']
    q_mvar,             \* net.load.loc[0, 'q_mvar']
    pf,                 \* what the last solve_power_flow returned (or raised)
    solve_calls,        \* solve_power_flow calls made so far
    collapse_load,      \* the load above which runpp does not converge
    net_topology,       \* the elements of net, as _build_network created them
    solve_log,          \* history: load_mw and result of each solve_power_flow
    pc,                 \* the driver's position
    h,                  \* the loop variable of for h in range(24)
    base_load_feeder,   \* 24 values
    ambient_temp,       \* 24 values
    total_load,         \* app.py: base_load_feeder + ev_profile
    hst_results,        \* app.py
    faa_results,        \* app.py
    load_ulo,           \* run_pipeline.py: base_load_feeder + ev_ulo
    load_smart,         \* run_pipeline.py: base_load_feeder + ev_smart
    peak_ulo,           \* run_pipeline.py
    peak_smart,         \* run_pipeline.py
    hst_ulo,            \* run_pipeline.py
    hst_smart,          \* run_pipeline.py
    step_log            \* history: one record per calculate_thermal_aging call

thermalVars == <<prev_top_oil_rise, hst, faa, calls, oil_before, last_loading,
                 same_run, run_oil0, changes>>

evVars == <<ev_state, num_evs, mode, sessions, ev_curve, prev_mode, prev_curve,
            n_calls, np_random_pos>>

netVars == <<p_mw, q_mvar, pf, solve_calls, collapse_load, net_topology,
            solve_log>>

inputVars == <<base_load_feeder, ambient_temp>>

appVars == <<total_load, hst_results, faa_results>>

pipeVars == <<load_ulo, load_smart, peak_ulo, peak_smart, hst_ulo, hst_smart>>

driverVars == <<pc, h, inputVars, appVars, pipeVars, step_log>>

vars == <<thermalVars, evVars, netVars, driverVars>>

\* _build_network: pp.create_load(net, bus=lv_bus, p_mw=0, q_mvar=0)
BuildNetwork ==
    /\ p_mw = 0
    /\ q_mvar = 0
    /\ pf = [raised |-> FALSE, loading |-> 0, voltage |-> 0]
    /\ solve_calls = 0
    /\ net_topology = NetTopology
    /\ solve_log = << >>

\* No driver is running.
NoDriver ==
    /\ pc = "none"
    /\ h = 0
    /\ base_load_feeder = << >>
    /\ ambient_temp = << >>
    /\ total_load = << >>
    /\ hst_results = << >>
    /\ faa_results = << >>
    /\ load_ulo = << >>
    /\ load_smart = << >>
    /\ peak_ulo = 0
    /\ peak_smart = 0
    /\ hst_ulo = << >>
    /\ hst_smart = << >>
    /\ step_log = << >>

\* GridPhysics.solve_power_flow(load_mw)
solve_power_flow(load_mw) ==
    LET solved == RunppLoad(load_mw, p_mw)
        result == SolvePowerFlow(solved, solved > collapse_load)
    IN  /\ p_mw' = load_mw
        /\ q_mvar' = QMvar(load_mw)
        /\ pf' = result
        /\ solve_calls' = solve_calls + 1
        /\ solve_log' = Append(solve_log, [load |-> load_mw, result |-> result])
        /\ UNCHANGED <<collapse_load, net_topology>>

\* The record a driver's calculate_thermal_aging call leaves in step_log.
StepRecord(scenario, hr, load_mw, ambient_temp_c) ==
    [scenario |-> scenario, hour |-> hr, load |-> load_mw,
     loading |-> pf.loading, ambient |-> ambient_temp_c,
     oil_read |-> prev_top_oil_rise,
     oil_written |-> CurrentTopOilRise(prev_top_oil_rise, pf.loading)]

\* Before EVSimulator(...) is constructed; the process-wide generator is
\* unseeded and nothing has been drawn from it.
NoEVSimulator ==
    /\ ev_state = "none"
    /\ num_evs = 0
    /\ mode = "none"
    /\ sessions = << >>
    /\ ev_curve = << >>
    /\ prev_mode = "none"
    /\ prev_curve = << >>
    /\ n_calls = 0
    /\ np_random_pos = 0

\* EVSimulator.__init__(num_evs): three assignments, no validation
EVSimulatorInit(n) ==
    /\ ev_state' = "constructed"
    /\ num_evs' = n

\* Values one call takes from np.random: normal(size=n), uniform(size=n) and,
\* under ulo_timer and smart_managed, one randint per vehicle.
DrawsPerCall(m, n) == IF m = "uncontrolled" THEN 2 * n ELSE 3 * n

\* The arrival is drawn in every mode and read only under uncontrolled: one
\* value stands for it elsewhere.  randint is drawn only under the two timers.
ArrivalChoices(m) == IF m = "uncontrolled" THEN ArrivalDraws ELSE {1800}
JitterChoices(m) ==
    CASE m = "uncontrolled" -> {0}
      [] m = "ulo_timer" -> RandintDraws(UloJitterHigh)
      [] m = "smart_managed" -> RandintDraws(WindowHours * 60)

\* EVSimulator.generate_load_profile(mode=m).  np.random.normal(size=n) raises
\* ValueError for a negative n; otherwise the per-vehicle values are whatever
\* the process-wide generator yields next.
generate_load_profile(m) ==
    IF num_evs < 0
    THEN /\ ev_state' = "ValueError"
         /\ UNCHANGED <<num_evs, mode, sessions, ev_curve, prev_mode, prev_curve,
                        n_calls, np_random_pos>>
    ELSE \E arrivals \in [1 .. num_evs -> ArrivalChoices(m)],
            socs \in [1 .. num_evs -> SocDraws],
            jitters \in [1 .. num_evs -> JitterChoices(m)] :
            /\ mode' = m
            /\ sessions' = Sessions(m, num_evs, arrivals, socs, jitters)
            /\ ev_curve' = LoadCurveHourly(Sessions(m, num_evs, arrivals, socs, jitters))
            /\ prev_mode' = mode
            /\ prev_curve' = ev_curve
            /\ n_calls' = n_calls + 1
            /\ np_random_pos' = np_random_pos + DrawsPerCall(m, num_evs)
            /\ UNCHANGED <<ev_state, num_evs>>

\* GridPhysics.__init__: self.prev_top_oil_rise = 0.0
GridPhysicsInit ==
    /\ prev_top_oil_rise = 0
    /\ hst = 0
    /\ faa = ONE
    /\ calls = 0
    /\ oil_before = 0
    /\ last_loading = 0
    /\ same_run = 0
    /\ run_oil0 = 0
    /\ changes = 0

\* GridPhysics.calculate_thermal_aging(loading_percent, ambient_temp_c)
calculate_thermal_aging(loading_percent, ambient_temp_c) ==
    /\ prev_top_oil_rise' = CurrentTopOilRise(prev_top_oil_rise, loading_percent)
    /\ hst' = Hst(prev_top_oil_rise, loading_percent, ambient_temp_c)
    /\ faa' = Faa(Hst(prev_top_oil_rise, loading_percent, ambient_temp_c))
    /\ oil_before' = prev_top_oil_rise
    /\ calls' = calls + 1
    /\ last_loading' = loading_percent
    /\ same_run' = IF calls > 0 /\ loading_percent = last_loading
                   THEN same_run + 1 ELSE 1
    /\ run_oil0' = IF calls > 0 /\ loading_percent = last_loading
                   THEN run_oil0 ELSE prev_top_oil_rise
    /\ changes' = IF calls > 0 /\ loading_percent # last_loading
                  THEN changes + 1 ELSE changes

(***************************************************************************)
(* SpecThermal: one GridPhysics, calculate_thermal_aging called repeatedly *)
(* with arbitrary arguments.                                               *)
(***************************************************************************)
\* ambient temperatures (0.01 degC) tried by SpecThermal
AmbientProbe == {-2000, 2000, 3000, 4000}

ThermalCall ==
    /\ calls < MaxCalls
    /\ \E loading_percent \in LoadingLevels, ambient_temp_c \in AmbientProbe :
          /\ \/ calls = 0
             \/ loading_percent = last_loading
             \/ changes < MaxLoadChanges
          /\ calculate_thermal_aging(loading_percent, ambient_temp_c)
    /\ UNCHANGED <<evVars, netVars, driverVars>>

ThermalInit ==
    GridPhysicsInit /\ NoEVSimulator /\ BuildNetwork /\ NoDriver
        /\ collapse_load = SetMax(CollapseLoads)

ThermalNext == ThermalCall

SpecThermal == ThermalInit /\ [][ThermalNext]_vars

(***************************************************************************)
(* SpecEV: one EVSimulator, constructed with any fleet size, and           *)
(* generate_load_profile called on it repeatedly.                          *)
(***************************************************************************)
Construct ==
    /\ ev_state = "none"
    /\ \E n \in -1 .. MaxFleet : EVSimulatorInit(n)
    /\ UNCHANGED <<mode, sessions, ev_curve, prev_mode, prev_curve, n_calls,
                   np_random_pos>>
    /\ UNCHANGED <<thermalVars, netVars, driverVars>>

Generate ==
    /\ ev_state = "constructed"
    /\ n_calls < MaxProfileCalls
    /\ \E m \in Modes : generate_load_profile(m)
    /\ UNCHANGED <<thermalVars, netVars, driverVars>>

EVInit ==
    GridPhysicsInit /\ NoEVSimulator /\ BuildNetwork /\ NoDriver
        /\ collapse_load = SetMax(CollapseLoads)

EVNext == Construct \/ Generate

SpecEV == EVInit /\ [][EVNext]_vars

(***************************************************************************)
(* SpecGrid: one GridPhysics, and solve_power_flow and                     *)
(* calculate_thermal_aging called on it in any order with any arguments.   *)
(***************************************************************************)
\* loads (MW * 60000) tried: none, 2.5 MW, 5 MW, 9 MW
LoadProbe == {0, 150000, 300000, 540000}
\* loading_percent values tried: none, rated, the collapse sentinel
LoadingProbe == {0, 100, CollapseLoading}

GridSolve ==
    /\ solve_calls + calls < MaxGridCalls
    /\ \E load_mw \in LoadProbe : solve_power_flow(load_mw)
    /\ UNCHANGED <<thermalVars, evVars, driverVars>>

GridAge ==
    /\ solve_calls + calls < MaxGridCalls
    /\ \E loading_percent \in LoadingProbe :
          calculate_thermal_aging(loading_percent, 3000)
    /\ UNCHANGED <<evVars, netVars, driverVars>>

GridInit ==
    GridPhysicsInit /\ NoEVSimulator /\ BuildNetwork /\ NoDriver
        /\ collapse_load \in CollapseLoads

GridNext == GridSolve \/ GridAge

SpecGrid == GridInit /\ [][GridNext]_vars

(***************************************************************************)
(* SpecProfile: one EVSimulator of any fleet size and a single             *)
(* generate_load_profile call on it, as each driver makes per curve.       *)
(***************************************************************************)
GenerateFirst ==
    /\ ev_state = "constructed"
    /\ n_calls = 0
    /\ \E m \in Modes : generate_load_profile(m)
    /\ UNCHANGED <<thermalVars, netVars, driverVars>>

ProfileNext == Construct \/ GenerateFirst

SpecProfile == EVInit /\ [][ProfileNext]_vars

(***************************************************************************)
(* What the drivers share.                                                 *)
(***************************************************************************)
\* grid = GridPhysics(): a fresh network and zero oil rise, with any of the
\* limits of CollapseLoads.
NewGridPhysics ==
    /\ prev_top_oil_rise' = 0
    /\ hst' = 0
    /\ faa' = ONE
    /\ calls' = 0
    /\ oil_before' = 0
    /\ last_loading' = 0
    /\ same_run' = 0
    /\ run_oil0' = 0
    /\ changes' = 0
    /\ p_mw' = 0
    /\ q_mvar' = 0
    /\ pf' = [raised |-> FALSE, loading |-> 0, voltage |-> 0]
    /\ solve_calls' = 0
    /\ net_topology' = NetTopology
    /\ solve_log' = << >>
    /\ collapse_load' \in CollapseLoads

\* A driver about to start, with its external inputs: the base load and the
\* ambient temperature of the chosen day.
DriverInit ==
    /\ pc = "ev_sim"
    /\ h = 0
    /\ base_load_feeder \in BaseLoadCurves
    /\ ambient_temp \in AmbientCurves
    /\ collapse_load = SetMax(CollapseLoads)
    /\ total_load = << >>
    /\ hst_results = << >>
    /\ faa_results = << >>
    /\ load_ulo = << >>
    /\ load_smart = << >>
    /\ peak_ulo = 0
    /\ peak_smart = 0
    /\ hst_ulo = << >>
    /\ hst_smart = << >>
    /\ step_log = << >>

\* generate_load_profile has returned and its per-vehicle locals are gone.
DropLocals ==
    /\ sessions' = << >>
    /\ UNCHANGED <<ev_state, num_evs, mode, ev_curve, prev_mode, prev_curve,
                   n_calls, np_random_pos>>

\* for h in range(24): the next iteration, or the statement after the loop
LoopNext(first, after) ==
    IF h + 1 < HoursPerDay
    THEN h' = h + 1 /\ pc' = first
    ELSE h' = h /\ pc' = after

(***************************************************************************)
(* SpecApp: one run of the app.py script (lines 72 to 85).                 *)
(***************************************************************************)
\* ev_sim = EVSimulator(num_evs=num_evs), num_evs from the slider (0 and up)
AppEVSimulator ==
    /\ pc = "ev_sim"
    /\ \E n \in 0 .. MaxFleet : EVSimulatorInit(n)
    /\ pc' = "generate"
    /\ UNCHANGED <<mode, sessions, ev_curve, prev_mode, prev_curve, n_calls,
                   np_random_pos>>
    /\ UNCHANGED <<thermalVars, netVars, h, inputVars, appVars, pipeVars,
                   step_log>>

\* ev_profile = ev_sim.generate_load_profile(mode=charging_mode)
AppGenerate ==
    /\ pc = "generate"
    /\ \E m \in Modes : generate_load_profile(m)
    /\ pc' = "total"
    /\ UNCHANGED <<thermalVars, netVars, h, inputVars, appVars, pipeVars,
                   step_log>>

\* total_load = base_load_feeder + ev_profile; grid = GridPhysics();
\* hst_results = []; faa_results = []
AppTotalLoad ==
    /\ pc = "total"
    /\ total_load' = TotalLoad(base_load_feeder, ev_curve)
    /\ NewGridPhysics
    /\ DropLocals
    /\ hst_results' = << >>
    /\ faa_results' = << >>
    /\ h' = 0
    /\ pc' = "solve"
    /\ UNCHANGED <<inputVars, pipeVars, step_log>>

\* loading, _ = grid.solve_power_flow(total_load[h])
AppSolve ==
    /\ pc = "solve"
    /\ solve_power_flow(LoadAt(total_load, h))
    /\ pc' = IF pf'.raised THEN "raised" ELSE "age"
    /\ UNCHANGED <<thermalVars, evVars, h, inputVars, appVars, pipeVars,
                   step_log>>

\* hst, faa = grid.calculate_thermal_aging(loading, ambient_temp[h]);
\* hst_results.append(hst); faa_results.append(faa)
AppAge ==
    /\ pc = "age"
    /\ calculate_thermal_aging(pf.loading, ambient_temp[h])
    /\ hst_results' = Append(hst_results, hst')
    /\ faa_results' = Append(faa_results, faa')
    /\ step_log' = Append(step_log, StepRecord("app", h, p_mw, ambient_temp[h]))
    /\ LoopNext("solve", "done")
    /\ UNCHANGED <<evVars, netVars, inputVars, total_load, pipeVars>>

AppInit ==
    GridPhysicsInit /\ NoEVSimulator /\ BuildNetwork /\ DriverInit

AppNext ==
    AppEVSimulator \/ AppGenerate \/ AppTotalLoad \/ AppSolve \/ AppAge

SpecApp == AppInit /\ [][AppNext]_vars

(***************************************************************************)
(* SpecPipeline: run_pipeline.main from line 54 to line 89; the fleet of   *)
(* 1000 is replaced by every size up to MaxFleet.                          *)
(***************************************************************************)
\* ev_sim = EVSimulator(num_evs=1000)
PipeEVSimulator ==
    /\ pc = "ev_sim"
    /\ \E n \in 0 .. MaxFleet : EVSimulatorInit(n)
    /\ pc' = "gen_ulo"
    /\ UNCHANGED <<mode, sessions, ev_curve, prev_mode, prev_curve, n_calls,
                   np_random_pos>>
    /\ UNCHANGED <<thermalVars, netVars, h, inputVars, appVars, pipeVars,
                   step_log>>

\* ev_ulo = ev_sim.generate_load_profile('ulo_timer');
\* load_ulo = base_load_feeder + ev_ulo
PipeGenerateUlo ==
    /\ pc = "gen_ulo"
    /\ generate_load_profile("ulo_timer")
    /\ load_ulo' = TotalLoad(base_load_feeder, ev_curve')
    /\ pc' = "gen_smart"
    /\ UNCHANGED <<thermalVars, netVars, h, inputVars, appVars, load_smart,
                   peak_ulo, peak_smart, hst_ulo, hst_smart, step_log>>

\* ev_smart = ev_sim.generate_load_profile('smart_managed');
\* load_smart = base_load_feeder + ev_smart
PipeGenerateSmart ==
    /\ pc = "gen_smart"
    /\ generate_load_profile("smart_managed")
    /\ load_smart' = TotalLoad(base_load_feeder, ev_curve')
    /\ pc' = "peaks"
    /\ UNCHANGED <<thermalVars, netVars, h, inputVars, appVars, load_ulo,
                   peak_ulo, peak_smart, hst_ulo, hst_smart, step_log>>

\* peak_ulo = load_ulo.max(); peak_smart = load_smart.max()
PipePeaks ==
    /\ pc = "peaks"
    /\ peak_ulo' = PeakOf(load_ulo)
    /\ peak_smart' = PeakOf(load_smart)
    /\ pc' = "grid"
    /\ UNCHANGED <<thermalVars, evVars, netVars, h, inputVars, appVars,
                   load_ulo, load_smart, hst_ulo, hst_smart, step_log>>

\* grid = GridPhysics(); hst_ulo = []; hst_smart = []: one GridPhysics for the
\* two scenarios
PipeGridPhysics ==
    /\ pc = "grid"
    /\ NewGridPhysics
    /\ DropLocals
    /\ hst_ulo' = << >>
    /\ hst_smart' = << >>
    /\ h' = 0
    /\ pc' = "solve_u"
    /\ UNCHANGED <<inputVars, appVars, load_ulo, load_smart, peak_ulo,
                   peak_smart, step_log>>

\* loading_u, _ = grid.solve_power_flow(load_ulo[h])
PipeSolveUlo ==
    /\ pc = "solve_u"
    /\ solve_power_flow(LoadAt(load_ulo, h))
    /\ pc' = IF pf'.raised THEN "raised" ELSE "age_u"
    /\ UNCHANGED <<thermalVars, evVars, h, inputVars, appVars, pipeVars,
                   step_log>>

\* temp_u, _ = grid.calculate_thermal_aging(loading_u, ambient_temp[h]);
\* hst_ulo.append(temp_u)
PipeAgeUlo ==
    /\ pc = "age_u"
    /\ calculate_thermal_aging(pf.loading, ambient_temp[h])
    /\ hst_ulo' = Append(hst_ulo, hst')
    /\ step_log' = Append(step_log, StepRecord("ulo", h, p_mw, ambient_temp[h]))
    /\ pc' = "solve_s"
    /\ UNCHANGED <<evVars, netVars, h, inputVars, appVars, load_ulo,
                   load_smart, peak_ulo, peak_smart, hst_smart>>

\* loading_s, _ = grid.solve_power_flow(load_smart[h])
PipeSolveSmart ==
    /\ pc = "solve_s"
    /\ solve_power_flow(LoadAt(load_smart, h))
    /\ pc' = IF pf'.raised THEN "raised" ELSE "age_s"
    /\ UNCHANGED <<thermalVars, evVars, h, inputVars, appVars, pipeVars,
                   step_log>>

\* temp_s, _ = grid.calculate_thermal_aging(loading_s, ambient_temp[h]);
\* hst_smart.append(temp_s)
PipeAgeSmart ==
    /\ pc = "age_s"
    /\ calculate_thermal_aging(pf.loading, ambient_temp[h])
    /\ hst_smart' = Append(hst_smart, hst')
    /\ step_log' = Append(step_log, StepRecord("smart", h, p_mw, ambient_temp[h]))
    /\ LoopNext("solve_u", "done")
    /\ UNCHANGED <<evVars, netVars, inputVars, appVars, load_ulo, load_smart,
                   peak_ulo, peak_smart, hst_ulo>>

PipeInit ==
    GridPhysicsInit /\ NoEVSimulator /\ BuildNetwork
        /\ DriverInit

PipeNext ==
    \/ PipeEVSimulator
    \/ PipeGenerateUlo
    \/ PipeGenerateSmart
    \/ PipePeaks
    \/ PipeGridPhysics
    \/ PipeSolveUlo
    \/ PipeAgeUlo
    \/ PipeSolveSmart
    \/ PipeAgeSmart

SpecPipeline == PipeInit /\ [][PipeNext]_vars

(***************************************************************************)
(* C1.  Scenario isolation: the oil rise a calculate_thermal_aging call    *)
(* reads is the one the previous call of the same scenario persisted, and  *)
(* 0 at the scenario's hour 0; no call made for another scenario comes in  *)
(* between.                                                                *)
(***************************************************************************)
\* The oil rise scenario scn owns before entry k of the log: what its latest
\* earlier call persisted, 0 if it has made none.
RECURSIVE OwnOilBefore(_, _, _)
OwnOilBefore(log, k, scn) ==
    IF k <= 1 THEN 0
    ELSE IF log[k - 1].scenario = scn THEN log[k - 1].oil_written
    ELSE OwnOilBefore(log, k - 1, scn)

C1_ScenarioIsolation ==
    \A k \in 1 .. Len(step_log) :
        /\ step_log[k].oil_read = OwnOilBefore(step_log, k, step_log[k].scenario)
        /\ step_log[k].hour = 0 => step_log[k].oil_read = 0

(***************************************************************************)
(* C2.  A solve that does not converge never raises into the driver: it    *)
(* returns the sentinel (150 %, 0.85 pu), that loading is what the thermal *)
(* stepper of the hour receives, the loop is never stopped before hour 23, *)
(* and it ends with 24 results recorded.                                   *)
(***************************************************************************)
C2_CollapseIsNotAnError ==
    /\ pc # "raised"
    /\ ~pf.raised
    /\ (pc = "age" /\ total_load[h] > collapse_load)
          => pf.loading = 150 /\ pf.voltage = 850
    /\ \A k \in 1 .. Len(step_log) :
          step_log[k].load > collapse_load =>
              /\ step_log[k].loading = 150
              /\ step_log[k].oil_written
                    = CurrentTopOilRise(step_log[k].oil_read, 150)
    /\ pc \in {"solve", "age"} => ENABLED AppNext
    /\ pc = "done" =>
          /\ h = 23
          /\ Len(hst_results) = 24
          /\ Len(faa_results) = 24
          /\ Len(step_log) = 24

\* a finished run in which every hour failed to converge
C2_Witness ==
    /\ pc = "done"
    /\ \A hr \in Hours : total_load[hr] > collapse_load
    /\ Len(hst_results) = 24
    /\ step_log[24].loading = 150
    /\ step_log[24].oil_read > 0

(***************************************************************************)
(* C3.  Within one run of the app.py loop the hours are processed in the   *)
(* order 0, 1, ..., 23; each hour makes exactly one                        *)
(* solve_power_flow(total_load[h]) and then exactly one                    *)
(* calculate_thermal_aging(loading, ambient_temp[h]); and the oil rise the *)
(* stepper call of hour h >= 1 reads is the value the call of hour h - 1   *)
(* persisted.                                                              *)
(***************************************************************************)
C3_HoursInOrder ==
    /\ \A k \in 1 .. Len(step_log) :
          /\ step_log[k].hour = k - 1
          /\ step_log[k].load = total_load[k - 1]
          /\ step_log[k].ambient = ambient_temp[k - 1]
          /\ step_log[k].oil_read =
                (IF k = 1 THEN 0 ELSE step_log[k - 1].oil_written)
          /\ hst_results[k] =
                Hst(step_log[k].oil_read, step_log[k].loading, step_log[k].ambient)
    /\ pc = "solve" => solve_calls = h /\ calls = h /\ Len(step_log) = h
    /\ pc = "age" =>
          /\ solve_calls = h + 1 /\ calls = h /\ Len(step_log) = h
          /\ p_mw = total_load[h]
    /\ pc = "done" => solve_calls = 24 /\ calls = 24 /\ Len(step_log) = 24
    /\ Len(step_log) > 0 =>
          prev_top_oil_rise = step_log[Len(step_log)].oil_written

\* a finished run over a day whose load and temperature vary, the oil still
\* rising at the last hour
C3_Witness ==
    /\ pc = "done"
    /\ Len(step_log) = 24
    /\ step_log[24].hour = 23
    /\ step_log[18].load # step_log[17].load
    /\ step_log[24].oil_read = step_log[23].oil_written
    /\ step_log[2].oil_read > 0

(***************************************************************************)
(* C5.  With fleet size 0 generate_load_profile returns 24 zeros under     *)
(* every policy, and the total load equals the base load at every hour.    *)
(***************************************************************************)
C5_EmptyFleet ==
    (num_evs = 0 /\ pc \in {"total", "solve", "age", "done"}) =>
        /\ DOMAIN ev_curve = 0 .. 23
        /\ \A hr \in 0 .. 23 : ev_curve[hr] = 0
        /\ pc # "total" => total_load = base_load_feeder

\* an empty fleet under the coordinated-spread policy, its total load built
C5_Witness ==
    /\ num_evs = 0
    /\ mode = "smart_managed"
    /\ pc = "solve"
    /\ n_calls = 1
    /\ total_load = base_load_feeder
    /\ total_load[23] > 0

(***************************************************************************)
(* C6.  As claimed: the peak total load under smart_managed is at most the *)
(* peak under ulo_timer, for every fleet size and every outcome of the     *)
(* random draws.                                                           *)
(***************************************************************************)
C6_SmartPeakNeverAbove ==
    pc \in {"grid", "solve_u", "age_u", "solve_s", "age_s", "done"}
        => peak_smart <= peak_ulo

(***************************************************************************)
(* C6, amended.  The peak total load under smart_managed is at most the    *)
(* peak under ulo_timer whenever every smart_managed vehicle drew a delay  *)
(* of at least 14 minutes, the largest jitter ulo_timer can draw.          *)
(***************************************************************************)
C6_SmartPeakAtMostUloPeak ==
    (/\ pc = "grid"
     /\ \A i \in 1 .. Len(sessions) : sessions[i].start >= 23 * 60 + 14)
        => peak_smart <= peak_ulo

\* two vehicles, every delay at least 14 minutes and one of exactly 14, the
\* smart peak above the base load and strictly below the ulo peak
C6_Witness ==
    /\ pc = "grid"
    /\ num_evs = 2
    /\ Len(sessions) = 2
    /\ \A i \in 1 .. 2 : sessions[i].start >= 23 * 60 + 14
    /\ \E i \in 1 .. 2 : sessions[i].start = 23 * 60 + 14
    /\ peak_smart < peak_ulo
    /\ peak_smart > PeakOf(base_load_feeder)

C8_ThermalLagConvergence ==
    calls > 0 =>
        LET target == TargetOilRise(last_loading)
            d0 == target - oil_before
            d1 == target - prev_top_oil_rise
        IN  /\ Abs(d1) <= Abs(d0)
            /\ d0 >= 0 => d1 >= 0
            /\ d0 <= 0 => d1 <= 0
            /\ Abs(d0) > 1 => Abs(d1) < Abs(d0)
            /\ 1000 * Abs(d1) >= 716 * Abs(d0) - 1000
            /\ 1000 * Abs(d1) <= 718 * Abs(d0) + 1000
            /\ (same_run = (5 * tau_oil) \div dt /\ run_oil0 = 0)
                  => 100 * Abs(d1) <= target

\* 15 calls at 100 % loading from zero rise: within 1 % of 50 degC, still below
C8_Witness ==
    /\ same_run = 15
    /\ run_oil0 = 0
    /\ last_loading = 100
    /\ prev_top_oil_rise < 5000
    /\ prev_top_oil_rise >= 4950
    /\ prev_top_oil_rise > oil_before

(***************************************************************************)
(* C4.  Two generate_load_profile calls with the same fleet size and the   *)
(* same policy return the same 24-value curve, whatever was drawn from the *)
(* generator before or between them.                                       *)
(***************************************************************************)
C4_SameInputsSameCurve ==
    (n_calls >= 2 /\ mode = prev_mode) => ev_curve = prev_curve

(***************************************************************************)
(* C9.  Midnight truncation: the returned curve has exactly 24 values, and *)
(* hour h holds the charging power once for every vehicle and every minute *)
(* of the vehicle's [start, start + duration) that lies in hour h of       *)
(* [0, 1440); minutes at or after 1440 appear nowhere (an hour that ends   *)
(* before every session starts is 0), and a session ending past the        *)
(* 2040-minute buffer raises no error.                                     *)
(***************************************************************************)
MinutesCharged(session, hr) ==
    Cardinality({minute \in (hr * 60) .. (hr * 60 + 59) :
                    /\ session.start <= minute
                    /\ minute < session.end
                    /\ minute < 1440})

RECURSIVE FleetMinutesCharged(_, _, _)
FleetMinutesCharged(ss, i, hr) ==
    IF i = 0 THEN 0
    ELSE MinutesCharged(ss[i], hr) + FleetMinutesCharged(ss, i - 1, hr)

C9_MidnightTruncation ==
    n_calls > 0 =>
        /\ DOMAIN ev_curve = 0 .. 23
        /\ \A hr \in 0 .. 23 :
              ev_curve[hr] = 7 * FleetMinutesCharged(sessions, Len(sessions), hr)
        /\ \A hr \in 0 .. 23 :
              (\A i \in 1 .. Len(sessions) : sessions[i].start >= (hr + 1) * 60)
                  => ev_curve[hr] = 0
        /\ ev_state = "constructed"

\* a call with one session cut at midnight and one ending past the buffer
C9_Witness ==
    /\ n_calls > 0
    /\ ev_state = "constructed"
    /\ \E i \in 1 .. Len(sessions) :
          sessions[i].start < 1440 /\ sessions[i].end > 1440
    /\ \E i \in 1 .. Len(sessions) : sessions[i].end > 2040
    /\ ev_curve[0] = 0
    /\ ev_curve[23] > 0

(***************************************************************************)
(* C11.  Start minute by policy: under uncontrolled the start is the       *)
(* vehicle's arrival time in whole minutes (the minute that contains       *)
(* arrival_hour * 60), 0 for an arrival before minute 0; under ulo_timer   *)
(* it is an integer in [1380, 1395); under smart_managed an integer in     *)
(* [1380, 1680); and always start >= 0 and end >= start.                   *)
(***************************************************************************)
C11_StartMinuteByPolicy ==
    (ev_state = "constructed" /\ n_calls > 0) =>
        \A i \in 1 .. Len(sessions) :
            LET s == sessions[i]
            IN  /\ s.start \in Nat
                /\ s.end >= s.start
                /\ mode = "uncontrolled" =>
                      IF s.arrival_hour * 60 >= 0
                      THEN /\ 100 * s.start <= s.arrival_hour * 60
                           /\ s.arrival_hour * 60 < 100 * (s.start + 1)
                      ELSE s.start = 0
                /\ mode = "ulo_timer" => s.start \in 1380 .. 1394
                /\ mode = "smart_managed" => s.start \in 1380 .. 1679

\* an uncontrolled call with a vehicle that arrived before minute 0 and was
\* clamped, and one that arrived at 23:45
C11_Witness ==
    /\ ev_state = "constructed"
    /\ mode = "uncontrolled"
    /\ Len(sessions) = 2
    /\ sessions[1].arrival_hour < 0
    /\ sessions[1].start = 0
    /\ sessions[2].start = 1425
    /\ sessions[2].end > sessions[2].start

(***************************************************************************)
(* C12.  solve_power_flow has no memory and a footprint disjoint from the  *)
(* stepper's: two solves of the same load on one GridPhysics return the    *)
(* same result whatever was solved in between, collapses included; a       *)
(* solve writes p_mw = load_mw and q_mvar = 0.33 * p_mw and leaves the     *)
(* thermal state and the network's elements as they were; and              *)
(* calculate_thermal_aging leaves the network, its injection and its       *)
(* last result as they were.                                               *)
(***************************************************************************)
SolveIsMemoryless ==
    \A i, j \in 1 .. Len(solve_log) :
        solve_log[i].load = solve_log[j].load
            => solve_log[i].result = solve_log[j].result

C12_SolverFrame ==
    [][/\ SolveIsMemoryless'
       /\ solve_calls' = solve_calls + 1 =>
             /\ p_mw' = solve_log'[Len(solve_log')].load
             /\ Abs(100 * q_mvar' - 33 * p_mw') <= 50
             /\ pf' = solve_log'[Len(solve_log')].result
             /\ UNCHANGED <<prev_top_oil_rise, thermalVars, net_topology>>
       /\ calls' = calls + 1 =>
             UNCHANGED <<p_mw, q_mvar, pf, solve_calls, net_topology,
                         solve_log>>]_vars

\* 5 MW solved, a collapse at 9 MW, a stepper call, and 5 MW solved again
\* with the result of the first time
C12_Witness ==
    /\ Len(solve_log) = 3
    /\ solve_log[1].load = 300000
    /\ solve_log[1].result.loading = 50
    /\ solve_log[2].load = 540000
    /\ solve_log[2].result.loading = CollapseLoading
    /\ solve_log[3] = solve_log[1]
    /\ calls = 1
    /\ prev_top_oil_rise > 0
    /\ p_mw = 300000
    /\ q_mvar = 99000

(***************************************************************************)
(* C10.  A negative fleet size is rejected when the EVSimulator is         *)
(* constructed: no constructed simulator holds num_evs < 0.                *)
(***************************************************************************)
C10_NegativeFleetFailsAtConstruction ==
    num_evs < 0 => ev_state # "constructed"

(***************************************************************************)
(* C13.  Under ulo_timer and smart_managed, hours 0..22 of the returned    *)
(* curve are exactly 0 and only hour 23 can be non-zero: it holds the      *)
(* minutes between each start and midnight, and a smart_managed vehicle    *)
(* whose delay is 60 minutes or more (start at or after minute 1440) adds  *)
(* nothing to the curve.                                                   *)
(***************************************************************************)
\* minutes before midnight of the sessions 1..i that start before it
RECURSIVE MinutesBeforeMidnight(_, _)
MinutesBeforeMidnight(ss, i) ==
    IF i = 0 THEN 0
    ELSE MinutesBeforeMidnight(ss, i - 1)
           + (IF ss[i].start < 1440 THEN Min(ss[i].end, 1440) - ss[i].start
              ELSE 0)

C13_OnlyHour23 ==
    (ev_state = "constructed" /\ n_calls > 0
        /\ mode \in {"ulo_timer", "smart_managed"}) =>
        /\ \A hr \in 0 .. 22 : ev_curve[hr] = 0
        /\ ev_curve[23] =
              charging_power * MinutesBeforeMidnight(sessions, Len(sessions))
        /\ (\A i \in 1 .. Len(sessions) : sessions[i].start >= 1440)
              => ev_curve[23] = 0

\* smart_managed, two vehicles: one delayed by an hour or more, which adds
\* nothing, and one that starts at 23:59 and charges the one minute left
C13_Witness ==
    /\ ev_state = "constructed"
    /\ mode = "smart_managed"
    /\ Len(sessions) = 2
    /\ sessions[1].start >= 1440
    /\ sessions[2].start = 1439
    /\ ev_curve[23] = charging_power
    /\ ev_curve[0] = 0

====
